---- MODULE Spec2Model ----
(***************************************************************************)
(* near-lake-pulse: the event consumer, the Stats store, the stall watcher *)
(* and the /metrics handler of src/src/main.rs as one state machine.       *)
(*                                                                         *)
(* Tasks run on the multi-threaded tokio runtime (#[tokio::main]), so the  *)
(* steps of different tasks interleave; each action below is one step of   *)
(* one task.  Stats is only touched while the tokio Mutex is held.         *)
(*                                                                         *)
(* Numbers.  An f64 rate is kept as the exact quotient [n, d] of the two   *)
(* integers the code divides; the IEEE results of a division by zero       *)
(* (+inf for n > 0, NaN for n = 0) are decided by the comparison           *)
(* operators below.  Block heights are u64: the heights 0..MaxHeight fit   *)
(* the i64 gauge, and HugeHeight stands for the heights above i64::MAX.    *)
(***************************************************************************)
EXTENDS Integers, Sequences, FiniteSets, TLC

----------------------------------------------------------------------------
(* Bounds of the model *)

MaxEvents == 2          \* events the source delivers in one run
MaxHeight == 1          \* largest height that fits the i64 gauge
MaxSamples == 3         \* watcher samples in one run
MaxChats == 2           \* configured recipients
MaxInterval == 1        \* largest sampling interval, seconds
MaxEncodeAttempts == 2  \* encoder attempts that are counted per request

HugeHeight == MaxHeight + 1
Heights == 0..HugeHeight
Intervals == 0..MaxInterval
ChatLists == {[i \in 1..n |-> i] : n \in 0..MaxChats}

----------------------------------------------------------------------------
(* Pure helpers *)

\* u64 -> i64 conversion of the latest-block gauge: Ok iff the height fits.
TryIntoI64Ok(h) == h <= MaxHeight

\* (count as f64) / (interval_secs as f64)
F64Div(c, t) == [n |-> c, d |-> t]

\* IEEE comparisons of a quotient with 0.0: n/0 is +inf for n > 0 and NaN
\* for n = 0, and every comparison with NaN is false.
F64GtZero(r) == r.n > 0
F64LeZero(r) == r.n = 0 /\ r.d > 0
F64IsZero(r) == r.n = 0 /\ r.d > 0
F64IsNaN(r) == r.n = 0 /\ r.d = 0
F64Zero == [n |-> 0, d |-> 1]
\* IEEE equality: NaN equals nothing, +inf equals +inf
F64Eq(a, b) ==
    /\ ~F64IsNaN(a) /\ ~F64IsNaN(b)
    /\ IF a.d = 0 \/ b.d = 0 THEN a.d = b.d ELSE a.n * b.d = b.n * a.d

\* Stats::new
StatsNew == [blocks_processed_count |-> 0,
             last_processed_block_height |-> 0,
             bps |-> F64Zero]

\* buffer_unordered(1usize)
BufferLimit == 1

\* a handler that counts the event and forgets its height
RecordEventKeepHeight(s, h) == [s EXCEPT !.blocks_processed_count = @ + 1]

\* Stats update of handle_streamer_message, under the lock
RecordEvent(s, h) == [s EXCEPT !.blocks_processed_count = @ + 1,
                               !.last_processed_block_height = h]

\* rate of one watcher sample
SampleRate(s, prev, t) == F64Div(s.blocks_processed_count - prev, t)

\* a sample that also resets the counter it has just read
SampleStatsReset(s, rate) ==
    [s EXCEPT !.bps = rate, !.blocks_processed_count = 0]

\* Stats write of one watcher sample, under the lock
SampleStats(s, rate) == [s EXCEPT !.bps = rate]

\* a baseline that accumulates the counts instead of replacing the old one
SampleBaselineSum(s, prev) == prev + s.blocks_processed_count

\* new baseline of one watcher sample
SampleBaseline(s, prev) == s.blocks_processed_count

\* the match on prev_state: the state after a sample with the given rate
NextState(st, rate) ==
    IF st = "Alerting"
    THEN IF F64GtZero(rate) THEN "Operating" ELSE "Alerting"
    ELSE IF F64LeZero(rate) THEN "Alerting" ELSE "Operating"

\* a level-triggered watcher: it also alerts on every stalled sample
ShouldNotifyLevel(st, ns) == ns # st \/ ns = "Alerting"

\* the send loops sit inside the two ifs that change prev_state
ShouldNotify(st, ns) == ns # st

\* the message sent on a transition into the given state
MessageKind(st) == IF st = "Alerting" THEN "alert" ELSE "resolved"

\* a watcher that is spawned for the recipients, with or without a token
WatcherSpawnedNoToken(token, chats) == Len(chats) > 0

\* a watcher that is spawned for the token, with or without recipients
WatcherSpawnedNoChats(token, chats) == token

\* main: the watcher is spawned only with a token and a recipient
WatcherSpawned(token, chats) == token /\ Len(chats) > 0

NoLock == [task |-> "none", idx |-> 0]
WatcherLock == [task |-> "watcher", idx |-> 0]
HandlerLock(i) == [task |-> "handler", idx |-> i]

----------------------------------------------------------------------------
VARIABLES
    telegram_token,     \* Opts.telegram_token is Some
    chat_ids,           \* Opts.chat_id
    interval_secs,      \* Opts.stats_interval_sec
    stream,             \* events in the channel of the lake framework
    sent,               \* history: heights the source has delivered
    closed,             \* the source has dropped its sender
    consumer,           \* "running", "exited" or "panicked"
    pulled,             \* events taken from the stream so far
    in_flight,          \* handler futures inside buffer_unordered
    handled,            \* history: events whose handler has returned
    stats,              \* the Stats behind the Mutex
    lock,               \* holder of the Mutex
    BLOCKS_INDEXED,     \* pulse_blocks_indexed
    LATEST_BLOCK_HEIGHT,\* pulse_latest_block
    BPS,                \* pulse_bps
    watcher,            \* position of stats_watcher
    prev_blocks_processed_count,
    prev_state,
    block_processing_speed,
    send_idx,           \* position of the for loop over chat_ids
    samples,            \* history: samples taken
    window_events,      \* history: events recorded since the last sample
    sample_log,         \* history: state, rate and events of every sample
    notifications,      \* history: send attempts, in order
    request,            \* position of the metrics handler
    attempts,           \* encoder attempts of the current request
    response            \* last response

cfgVars == <<telegram_token, chat_ids, interval_secs>>
srcVars == <<stream, sent, closed>>
conVars == <<consumer, pulled, in_flight, handled>>
regVars == <<BLOCKS_INDEXED, LATEST_BLOCK_HEIGHT, BPS>>
watVars == <<watcher, prev_blocks_processed_count, prev_state,
             block_processing_speed, send_idx, samples, notifications>>
reqVars == <<request, attempts, response>>
vars == <<cfgVars, srcVars, conVars, regVars, watVars, reqVars,
          stats, lock, window_events, sample_log>>

NoResponse == [status |-> "none", indexed |-> 0, latest |-> 0, bps |-> F64Zero]

Init ==
    /\ telegram_token \in BOOLEAN
    /\ chat_ids \in ChatLists
    /\ interval_secs \in Intervals
    /\ stream = <<>> /\ sent = <<>> /\ closed = FALSE
    /\ consumer = "running" /\ pulled = 0 /\ in_flight = {} /\ handled = <<>>
    /\ stats = StatsNew /\ lock = NoLock
    /\ BLOCKS_INDEXED = 0 /\ LATEST_BLOCK_HEIGHT = 0 /\ BPS = F64Zero
    /\ watcher = IF WatcherSpawned(telegram_token, chat_ids)
                 THEN "sleep" ELSE "absent"
    /\ prev_blocks_processed_count = 0
    /\ prev_state = "Operating"
    /\ block_processing_speed = F64Zero
    /\ send_idx = 0 /\ samples = 0 /\ window_events = 0
    /\ sample_log = <<>>
    /\ notifications = <<>>
    /\ request = "idle" /\ attempts = 0
    /\ response = NoResponse

----------------------------------------------------------------------------
(* The event source (near_lake_framework::streamer), an external component *)

SourceSend(h) ==
    /\ ~closed /\ Len(sent) < MaxEvents
    /\ stream' = Append(stream, h)
    /\ sent' = Append(sent, h)
    /\ UNCHANGED <<closed, cfgVars, conVars, regVars, watVars, reqVars,
                   stats, lock, window_events, sample_log>>

SourceDeliver == \E h \in Heights : SourceSend(h)

SourceClose ==
    /\ ~closed
    /\ closed' = TRUE
    /\ UNCHANGED <<stream, sent, cfgVars, conVars, regVars, watVars, reqVars,
                   stats, lock, window_events, sample_log>>

----------------------------------------------------------------------------
(* The consumer task: map(handle_streamer_message).buffer_unordered(1) *)

\* buffer_unordered takes the next event while fewer than the limit are in
\* flight
ConsumerPull ==
    /\ consumer = "running"
    /\ Cardinality(in_flight) < BufferLimit
    /\ stream # <<>>
    /\ in_flight' = in_flight \cup
           {[idx |-> pulled + 1, height |-> Head(stream), pc |-> "inc"]}
    /\ pulled' = pulled + 1
    /\ stream' = Tail(stream)
    /\ UNCHANGED <<sent, closed, consumer, handled, cfgVars, regVars, watVars,
                   reqVars, stats, lock, window_events, sample_log>>

\* a loop that ends with the channel and abandons the handler in flight
ConsumerExitEarly ==
    /\ consumer = "running"
    /\ closed /\ stream = <<>>
    /\ consumer' = "exited"
    /\ UNCHANGED <<pulled, in_flight, handled, cfgVars, srcVars, regVars,
                   watVars, reqVars, stats, lock, window_events, sample_log>>

\* while let Some(_) = handlers.next().await {}: ends when the stream is done
ConsumerExit ==
    /\ consumer = "running"
    /\ closed /\ stream = <<>> /\ in_flight = {}
    /\ consumer' = "exited"
    /\ UNCHANGED <<pulled, in_flight, handled, cfgVars, srcVars, regVars,
                   watVars, reqVars, stats, lock, window_events, sample_log>>

Step(f, p) == (in_flight \ {f}) \cup {[f EXCEPT !.pc = p]}

\* BLOCKS_INDEXED.inc()
HandlerIncAt(f) ==
    /\ consumer = "running" /\ f \in in_flight /\ f.pc = "inc"
    /\ BLOCKS_INDEXED' = BLOCKS_INDEXED + 1
    /\ in_flight' = Step(f, "gauge")
    /\ UNCHANGED <<LATEST_BLOCK_HEIGHT, BPS, consumer, pulled, handled,
                   cfgVars, srcVars, watVars, reqVars, stats, lock,
                   window_events, sample_log>>

\* LATEST_BLOCK_HEIGHT.set(height.try_into().unwrap()): the unwrap panics
\* the consumer task, which drops every future in flight and its guard
HandlerGaugeAt(f) ==
    /\ consumer = "running" /\ f \in in_flight /\ f.pc = "gauge"
    /\ IF TryIntoI64Ok(f.height)
       THEN /\ LATEST_BLOCK_HEIGHT' = f.height
            /\ in_flight' = Step(f, "lock")
            /\ UNCHANGED <<consumer, lock>>
       ELSE /\ consumer' = "panicked"
            /\ in_flight' = {}
            /\ lock' = IF lock.task = "handler" THEN NoLock ELSE lock
            /\ UNCHANGED LATEST_BLOCK_HEIGHT
    /\ UNCHANGED <<BLOCKS_INDEXED, BPS, pulled, handled, cfgVars, srcVars,
                   watVars, reqVars, stats, window_events, sample_log>>

\* stats.lock().await
HandlerLockStatsAt(f) ==
    /\ consumer = "running" /\ f \in in_flight /\ f.pc = "lock"
    /\ lock = NoLock
    /\ lock' = HandlerLock(f.idx)
    /\ in_flight' = Step(f, "bps")
    /\ UNCHANGED <<consumer, pulled, handled, cfgVars, srcVars, regVars,
                   watVars, reqVars, stats, window_events, sample_log>>

\* BPS.set(stats_lock.bps)
HandlerBpsAt(f) ==
    /\ consumer = "running" /\ f \in in_flight /\ f.pc = "bps"
    /\ BPS' = stats.bps
    /\ in_flight' = Step(f, "record")
    /\ UNCHANGED <<BLOCKS_INDEXED, LATEST_BLOCK_HEIGHT, consumer, pulled,
                   handled, cfgVars, srcVars, watVars, reqVars, stats, lock,
                   window_events, sample_log>>

\* blocks_processed_count += 1; last_processed_block_height = height
HandlerRecordAt(f) ==
    /\ consumer = "running" /\ f \in in_flight /\ f.pc = "record"
    /\ stats' = RecordEvent(stats, f.height)
    /\ window_events' = window_events + 1
    /\ in_flight' = Step(f, "drop")
    /\ UNCHANGED <<consumer, pulled, handled, cfgVars, srcVars, regVars,
                   watVars, reqVars, lock, sample_log>>

\* drop(stats_lock)
HandlerDropAt(f) ==
    /\ consumer = "running" /\ f \in in_flight /\ f.pc = "drop"
    /\ lock' = NoLock
    /\ in_flight' = Step(f, "log")
    /\ UNCHANGED <<consumer, pulled, handled, cfgVars, srcVars, regVars,
                   watVars, reqVars, stats, window_events, sample_log>>

\* eprintln!(height, shards); the future returns
HandlerLogAt(f) ==
    /\ consumer = "running" /\ f \in in_flight /\ f.pc = "log"
    /\ handled' = Append(handled, [idx |-> f.idx, height |-> f.height])
    /\ in_flight' = in_flight \ {f}
    /\ UNCHANGED <<consumer, pulled, cfgVars, srcVars, regVars, watVars,
                   reqVars, stats, lock, window_events, sample_log>>

\* one step of a handler in flight
HandlerInc == \E f \in in_flight : HandlerIncAt(f)
HandlerGauge == \E f \in in_flight : HandlerGaugeAt(f)
HandlerLockStats == \E f \in in_flight : HandlerLockStatsAt(f)
HandlerBps == \E f \in in_flight : HandlerBpsAt(f)
HandlerRecord == \E f \in in_flight : HandlerRecordAt(f)
HandlerDrop == \E f \in in_flight : HandlerDropAt(f)
HandlerLog == \E f \in in_flight : HandlerLogAt(f)

----------------------------------------------------------------------------
(* The stall watcher task: stats_watcher *)

\* tokio::time::sleep(interval_secs).await returns and stats.lock().await
\* acquires the Mutex; a watcher that waits for the Mutex holds nothing and
\* has changed nothing, like one that still sleeps
WatcherLockStats ==
    /\ watcher = "sleep" /\ samples < MaxSamples
    /\ lock = NoLock
    /\ lock' = WatcherLock
    /\ watcher' = "sample"
    /\ UNCHANGED <<prev_blocks_processed_count, prev_state,
                   block_processing_speed, send_idx, samples, notifications,
                   cfgVars, srcVars, conVars, regVars, reqVars, stats,
                   window_events, sample_log>>

\* the rate, stats_lock.bps and the new baseline
WatcherSample ==
    /\ watcher = "sample"
    /\ LET rate == SampleRate(stats, prev_blocks_processed_count,
                              interval_secs)
       IN /\ block_processing_speed' = rate
          /\ stats' = SampleStats(stats, rate)
    /\ prev_blocks_processed_count' =
           SampleBaseline(stats, prev_blocks_processed_count)
    /\ samples' = samples + 1
    /\ sample_log' = Append(sample_log,
           [state |-> prev_state,
            rate |-> SampleRate(stats, prev_blocks_processed_count,
                                interval_secs),
            events |-> window_events])
    /\ window_events' = 0
    /\ watcher' = "drop"
    /\ UNCHANGED <<prev_state, send_idx, notifications, cfgVars, srcVars,
                   conVars, regVars, reqVars, lock>>

\* a watcher whose guard lives on through the match and the sends
WatcherDropKeepsGuard ==
    /\ watcher = "drop"
    /\ watcher' = "match"
    /\ UNCHANGED <<prev_blocks_processed_count, prev_state,
                   block_processing_speed, send_idx, samples, notifications,
                   cfgVars, srcVars, conVars, regVars, reqVars, stats, lock,
                   window_events, sample_log>>

\* drop(stats_lock)
WatcherDrop ==
    /\ watcher = "drop"
    /\ lock' = NoLock
    /\ watcher' = "match"
    /\ UNCHANGED <<prev_blocks_processed_count, prev_state,
                   block_processing_speed, send_idx, samples, notifications,
                   cfgVars, srcVars, conVars, regVars, reqVars, stats,
                   window_events, sample_log>>

\* match prev_state: on a transition the for loop over chat_ids starts
WatcherMatch ==
    /\ watcher = "match"
    /\ LET ns == NextState(prev_state, block_processing_speed)
       IN IF ShouldNotify(prev_state, ns)
          THEN /\ prev_state' = ns
               /\ send_idx' = IF chat_ids # <<>> THEN 1 ELSE 0
               /\ watcher' = IF chat_ids # <<>> THEN "send" ELSE "sleep"
          ELSE /\ watcher' = "sleep"
               /\ UNCHANGED <<prev_state, send_idx>>
    /\ UNCHANGED <<prev_blocks_processed_count, block_processing_speed,
                   samples, notifications, cfgVars, srcVars, conVars, regVars,
                   reqVars, stats, lock, window_events, sample_log>>

\* the outcome of one send: the next recipient, the end of the loop, or the
\* panic of .unwrap() on Err
AfterSend(ok, i, n) ==
    IF ~ok THEN [pc |-> "panicked", idx |-> i]
    ELSE IF i < n THEN [pc |-> "send", idx |-> i + 1]
    ELSE [pc |-> "sleep", idx |-> 0]

\* bot.send_message(chat_id, text).send().await.unwrap()
WatcherSend(ok) ==
    /\ watcher = "send"
    /\ notifications' = Append(notifications,
           [chat_id |-> chat_ids[send_idx],
            kind |-> MessageKind(prev_state),
            bps |-> block_processing_speed,
            sample |-> samples,
            ok |-> ok])
    /\ LET a == AfterSend(ok, send_idx, Len(chat_ids))
       IN /\ watcher' = a.pc
          /\ send_idx' = a.idx
    /\ UNCHANGED <<prev_blocks_processed_count, prev_state,
                   block_processing_speed, samples, cfgVars, srcVars, conVars,
                   regVars, reqVars, stats, lock, window_events,
                   sample_log>>

WatcherNotify == \E ok \in BOOLEAN : WatcherSend(ok)

----------------------------------------------------------------------------
(* The metrics handler: GET /metrics *)

\* a GET /metrics arrives: a fresh buffer and encoder
MetricsRequest ==
    /\ request = "idle"
    /\ request' = "encode"
    /\ attempts' = 0
    /\ UNCHANGED <<response, cfgVars, srcVars, conVars, regVars, watVars,
                   stats, lock, window_events, sample_log>>

\* encoder.encode(gather()) is Ok: break, and the body is the response
MetricsEncodeOk ==
    /\ request = "encode"
    /\ response' = [status |-> "ok", indexed |-> BLOCKS_INDEXED,
                    latest |-> LATEST_BLOCK_HEIGHT, bps |-> BPS]
    /\ attempts' = IF attempts < MaxEncodeAttempts
                   THEN attempts + 1 ELSE attempts
    /\ request' = "idle"
    /\ UNCHANGED <<cfgVars, srcVars, conVars, regVars, watVars,
                   stats, lock, window_events, sample_log>>

\* encoder.encode(gather()) is Err: the error is printed and the loop goes on
MetricsEncodeErr ==
    /\ request = "encode"
    /\ attempts' = IF attempts < MaxEncodeAttempts
                   THEN attempts + 1 ELSE attempts
    /\ UNCHANGED <<request, response, cfgVars, srcVars, conVars,
                   regVars, watVars, stats, lock, window_events,
                   sample_log>>

----------------------------------------------------------------------------
\* the source and the consumer task
ConsumerNext ==
    \/ SourceDeliver
    \/ SourceClose
    \/ ConsumerPull
    \/ ConsumerExit
    \/ HandlerInc
    \/ HandlerGauge
    \/ HandlerLockStats
    \/ HandlerBps
    \/ HandlerRecord
    \/ HandlerDrop
    \/ HandlerLog

\* the consumer and the stall watcher
Next ==
    \/ ConsumerNext
    \/ WatcherLockStats
    \/ WatcherSample
    \/ WatcherDrop
    \/ WatcherMatch
    \/ WatcherNotify

Spec == Init /\ [][Next]_vars

\* The consumer and the metrics handler.  The handler reads the registry
\* and writes only its own request state; the watcher writes no registry
\* metric (WatcherLeavesRegistry), so the requests are checked in the
\* behaviours in which the watcher, if any, sleeps.
NextMetrics ==
    \/ ConsumerNext
    \/ MetricsRequest
    \/ MetricsEncodeOk
    \/ MetricsEncodeErr

SpecMetrics == Init /\ [][NextMetrics]_vars

\* no step of the watcher changes a metric of the registry or the request
WatcherLeavesRegistry ==
    [][watcher' # watcher => UNCHANGED <<regVars, reqVars>>]_vars


----------------------------------------------------------------------------
(* Properties *)

NonDecreasing(q) == \A i \in 1..Len(q) - 1 : q[i].height <= q[i + 1].height

\* C1: from the all-zero Stats, once N events have been fully handled (no
\* handler in flight), blocks_processed_count is N and, when the heights of
\* the sequence do not decrease, last_processed_block_height is the height
\* of the last event.
C1_CountAndLastHeight ==
    in_flight = {} =>
        /\ stats.blocks_processed_count = Len(handled)
        /\ (handled = <<>>) =>
               stats.last_processed_block_height =
                   StatsNew.last_processed_block_height
        /\ (handled # <<>> /\ NonDecreasing(handled)) =>
               stats.last_processed_block_height =
                   handled[Len(handled)].height

C1_Witness ==
    /\ in_flight = {}
    /\ Len(handled) = 2
    /\ handled[1].height < handled[2].height
    /\ stats.blocks_processed_count = 2

----------------------------------------------------------------------------
\* The samples the watcher has finished with: the match has run and every
\* send of its loop has returned, or the task has panicked
SampleDone(k) ==
    k \in 1..Len(sample_log) /\ (k < samples \/ watcher \in {"sleep", "panicked"})

\* the state the watcher is in after sample k
StateAfter(k) ==
    IF k < Len(sample_log) THEN sample_log[k + 1].state ELSE prev_state

\* the send attempts of sample k to recipient c of the given kind
Sends(k, c, kind) ==
    {i \in 1..Len(notifications) :
        /\ notifications[i].sample = k
        /\ notifications[i].chat_id = c
        /\ notifications[i].kind = kind}

Recipients == {chat_ids[i] : i \in 1..Len(chat_ids)}

\* C2: the watcher starts in Operating, and a sample taken in Operating with
\* a rate <= 0 moves it to Alerting and sends exactly one alert to every
\* configured recipient for that sample (a send is counted whether or not it
\* is delivered).
C2_AlertOnStall ==
    /\ (sample_log = <<>>) => prev_state = "Operating"
    /\ (sample_log # <<>>) => sample_log[1].state = "Operating"
    /\ \A k \in 1..Len(sample_log) :
           (SampleDone(k) /\ sample_log[k].state = "Operating"
                /\ F64LeZero(sample_log[k].rate)) =>
               /\ StateAfter(k) = "Alerting"
               /\ \A c \in Recipients :
                      Cardinality(Sends(k, c, "alert")) = 1

\* C3: a sample taken in Alerting with a rate > 0 moves the watcher back to
\* Operating and sends exactly one resolved notification to every configured
\* recipient for that sample (a send is counted whether or not it is
\* delivered).
C3_ResolvedOnRecovery ==
    \A k \in 1..Len(sample_log) :
        (SampleDone(k) /\ sample_log[k].state = "Alerting"
             /\ F64GtZero(sample_log[k].rate)) =>
            /\ StateAfter(k) = "Operating"
            /\ \A c \in Recipients :
                   Cardinality(Sends(k, c, "resolved")) = 1

----------------------------------------------------------------------------
\* sample k crosses the rate threshold in the direction the kind reports
Crosses(k, kind) ==
    \/ /\ kind = "alert"
       /\ sample_log[k].state = "Operating"
       /\ F64LeZero(sample_log[k].rate)
    \/ /\ kind = "resolved"
       /\ sample_log[k].state = "Alerting"
       /\ F64GtZero(sample_log[k].rate)

SentTo(c) ==
    LET IsFor(n) == n.chat_id = c
    IN SelectSeq(notifications, IsFor)

\* C4: alerts are edge-triggered.  Every notification belongs to a sample
\* that crosses the rate threshold, the watcher state changes only at such a
\* sample, and for every recipient alert and resolved notifications strictly
\* alternate, beginning with an alert.
C4_EdgeTriggered ==
    /\ \A i \in 1..Len(notifications) :
           /\ notifications[i].sample \in 1..Len(sample_log)
           /\ Crosses(notifications[i].sample, notifications[i].kind)
    /\ \A k \in 1..Len(sample_log) :
           StateAfter(k) # sample_log[k].state =>
               Crosses(k, MessageKind(StateAfter(k)))
    /\ \A c \in Recipients :
           LET q == SentTo(c)
           IN /\ (q # <<>>) => q[1].kind = "alert"
              /\ \A i \in 1..Len(q) - 1 : q[i].kind # q[i + 1].kind

\* a stall, a recovery, and a third sample that changes nothing
C4_Witness ==
    /\ watcher = "sleep" /\ Len(sample_log) = 3
    /\ Len(chat_ids) = 2
    /\ Len(SentTo(2)) = 2
    /\ SentTo(2)[1].kind = "alert" /\ SentTo(2)[2].kind = "resolved"
    /\ sample_log[3].state = "Operating" /\ F64GtZero(sample_log[3].rate)

----------------------------------------------------------------------------
RECURSIVE SumEvents(_)
SumEvents(q) == IF q = <<>> THEN 0 ELSE q[1].events + SumEvents(Tail(q))

\* C5: every sample computes rate = C / T, C the events recorded since the
\* previous sample and T the interval, and makes the current count the new
\* baseline: a sample with no new events yields rate 0, and every recorded
\* event is counted in exactly one sample or is still in the open window.
C5_RatePerSample ==
    /\ \A k \in 1..Len(sample_log) :
           /\ sample_log[k].rate.n = sample_log[k].events
           /\ sample_log[k].rate.d = interval_secs
           /\ sample_log[k].events = 0 => F64IsZero(sample_log[k].rate)
    /\ prev_blocks_processed_count + window_events =
           stats.blocks_processed_count
    /\ SumEvents(sample_log) = prev_blocks_processed_count

\* the events that have passed the Stats update
Recorded ==
    Len(handled) + Cardinality({f \in in_flight : f.pc \in {"drop", "log"}})

\* C6: at most one handler is in flight, the event in flight is the one
\* after the last handled event, the handled events are the delivered events
\* in source order, and no delivered event is dropped: each is still in the
\* channel, in flight, or handled.
C6_OneInFlightNoneDropped ==
    /\ Cardinality(in_flight) <= 1
    /\ \A f \in in_flight : f.idx = Len(handled) + 1
    /\ Len(handled) <= Len(sent)
    /\ \A i \in 1..Len(handled) :
           handled[i].idx = i /\ handled[i].height = sent[i]
    /\ Len(handled) + Cardinality(in_flight) + Len(stream) = Len(sent)

\* C7: the watcher and a handler never hold the Stats lock together, and no
\* update is lost under any interleaving: blocks_processed_count is the
\* number of events whose Stats update has run, and
\* last_processed_block_height is the height of the last of them.
C7_NoLostUpdate ==
    /\ watcher \in {"sample", "drop"} <=> lock = WatcherLock
    /\ \A f \in in_flight :
           f.pc \in {"bps", "record", "drop"} <=> lock = HandlerLock(f.idx)
    /\ stats.blocks_processed_count = Recorded
    /\ Recorded > 0 => stats.last_processed_block_height = sent[Recorded]

\* a handler waits for the lock the watcher holds after its sample, between
\* two recorded events
C7_Witness ==
    /\ watcher = "drop"
    /\ \E f \in in_flight : f.pc = "lock" /\ f.idx = 2
    /\ stats.blocks_processed_count = 1
    /\ samples = 1

\* C8: a failed send does not end the watcher loop.
C8_WatcherSurvivesFailedSend ==
    (\E i \in 1..Len(notifications) : ~notifications[i].ok) =>
        watcher # "panicked"

\* C9: a metrics request makes a single encoder attempt: once an attempt has
\* failed the request is answered and no further attempt is made.
C9_SingleEncodeAttempt ==
    /\ attempts <= 1
    /\ request = "encode" => attempts = 0

\* C10: right after a watcher sample (positive interval) the exported rate
\* gauge equals the rate the sample computed.
C10_GaugeFollowsSample ==
    (watcher = "drop" /\ interval_secs > 0) =>
        F64Eq(BPS, block_processing_speed)

----------------------------------------------------------------------------
\* the height of the last fully handled event, 0 before the first
LastHandledHeight ==
    IF handled = <<>> THEN 0 ELSE handled[Len(handled)].height

\* C11: a metrics request served when k events have been fully handled and
\* no handler is in flight reports pulse_blocks_indexed = k and
\* pulse_latest_block = the height of the k-th event, and serving it changes
\* no counter, gauge or Stats field.
C11_MetricsSnapshot ==
    [][(request = "encode" /\ request' = "idle" /\ in_flight = {}) =>
          /\ response'.status = "ok"
          /\ response'.indexed = Len(handled)
          /\ response'.latest = LastHandledHeight
          /\ UNCHANGED <<regVars, stats>>]_vars

\* C12: an event with a lower height is counted, and
\* last_processed_block_height never decreases.
C12_HeightNeverDecreases ==
    [][/\ stats'.blocks_processed_count >= stats.blocks_processed_count
       /\ stats'.last_processed_block_height >=
              stats.last_processed_block_height]_vars

\* C13: recording an event cannot fail, whatever its height: the consumer
\* never panics, and an event whose handler has passed the gauge goes on to
\* the Stats update.
C13_RecordingCannotFail ==
    /\ consumer # "panicked"
    /\ pulled = Len(handled) + Cardinality(in_flight)

----------------------------------------------------------------------------
NotificationsConfigured == telegram_token /\ chat_ids # <<>>

\* C14: without a token or without recipients no notification is ever sent
\* and no watcher runs, and this is not an error: the consumer handles the
\* events as in any other configuration.
C14_NotificationsDisabled ==
    ~NotificationsConfigured =>
        /\ notifications = <<>>
        /\ watcher = "absent"
        /\ samples = 0
        /\ consumer = "running" => Cardinality(in_flight) + Len(handled) = pulled

\* recipients without a token, and the events of the run handled
C14_Witness ==
    /\ ~telegram_token /\ Len(chat_ids) = 2
    /\ Len(handled) = 2 /\ stats.blocks_processed_count = 2
    /\ notifications = <<>>

----------------------------------------------------------------------------
\* the points where a task is suspended for I/O or a timer
WatcherWaits == watcher \in {"sleep", "send"}
HandlerWaits(f) == f.pc = "log"

\* C15: the Stats lock is never held across an I/O wait.  The watcher does
\* not hold it while it sleeps or awaits a send, a handler does not hold it
\* while it writes its log line, the consumer does not hold it while it
\* awaits the next event, and so a pending send leaves the lock to the
\* handlers.
C15_NoLockAcrossIo ==
    /\ WatcherWaits => lock # WatcherLock
    /\ \A f \in in_flight : HandlerWaits(f) => lock # HandlerLock(f.idx)
    /\ in_flight = {} => lock.task # "handler"
    /\ (watcher = "send" /\ \E f \in in_flight : f.pc = "lock") =>
           ENABLED HandlerLockStats

\* a handler records its event while a send of the watcher is pending
C15_Witness ==
    /\ watcher = "send"
    /\ \E f \in in_flight : f.pc = "record" /\ lock = HandlerLock(f.idx)

----------------------------------------------------------------------------
\* C16: when the source closes the consumption loop exits without error and
\* without changing Stats or any metric, every delivered event has been
\* handled by then, and the watcher is unaffected: the exit changes nothing
\* of the watcher and leaves the lock free for its next sample.
C16_SilentExit ==
    /\ [](consumer = "exited" =>
            /\ closed /\ stream = <<>> /\ in_flight = {}
            /\ Len(handled) = Len(sent)
            /\ stats.blocks_processed_count = Len(sent)
            /\ lock.task # "handler"
            /\ (watcher = "sleep" /\ samples < MaxSamples) =>
                   ENABLED WatcherLockStats)
    /\ [][(consumer = "running" /\ consumer' = "exited") =>
             UNCHANGED <<stats, lock, regVars, watVars, reqVars, handled,
                         window_events>>]_vars

\* the watcher takes a sample with the lock it found free after the exit
C16_Witness ==
    /\ consumer = "exited" /\ Len(handled) = 2
    /\ watcher = "sample" /\ samples = 2
    /\ window_events = 0

----------------------------------------------------------------------------
\* C17: the baseline never exceeds blocks_processed_count, so the unsigned
\* subtraction of the rate never underflows and no computed rate is
\* negative.
C17_BaselineBelowCount ==
    /\ prev_blocks_processed_count <= stats.blocks_processed_count
    /\ block_processing_speed.n >= 0
    /\ stats.bps.n >= 0
    /\ \A k \in 1..Len(sample_log) : sample_log[k].rate.n >= 0

\* a second sample whose baseline is the count of the first, one event later
C17_Witness ==
    /\ watcher = "drop" /\ samples = 2
    /\ sample_log[1].events = 1 /\ sample_log[2].events = 1
    /\ prev_blocks_processed_count = 2

\* C18: pulse_blocks_indexed minus blocks_processed_count is 0 or 1; it is 1
\* exactly while a handler is between its counter increment and its Stats
\* update, and 0 whenever no handler is in flight.
C18_CounterInStep ==
    LET diff == BLOCKS_INDEXED - stats.blocks_processed_count
    IN /\ diff \in {0, 1}
       /\ diff = 1 <=>
              \E f \in in_flight : f.pc \in {"gauge", "lock", "bps", "record"}
       /\ in_flight = {} => diff = 0

AllSendsOk == \A i \in 1..Len(notifications) : notifications[i].ok

\* the send attempts of sample k
SendsOf(k) == {i \in 1..Len(notifications) : notifications[i].sample = k}

\* C19: with notifications configured and every send succeeding, once the
\* source delivers nothing the watcher gets to Alerting and stays there: a
\* finished sample of a window without events leaves the watcher in
\* Alerting, with one alert per recipient if it was Operating and with no
\* notification if it was Alerting already.
C19_StallReachesAlerting ==
    (NotificationsConfigured /\ AllSendsOk) =>
        \A k \in 1..Len(sample_log) :
            (SampleDone(k) /\ sample_log[k].events = 0) =>
                /\ StateAfter(k) = "Alerting"
                /\ sample_log[k].state = "Operating" =>
                       \A c \in Recipients :
                           Cardinality(Sends(k, c, "alert")) = 1
                /\ sample_log[k].state = "Alerting" => SendsOf(k) = {}

\* C20: without notifications configured Stats.bps is never written after
\* startup: Stats.bps and pulse_bps are 0 in every reachable state.
C20_RateStaysZero ==
    ~NotificationsConfigured =>
        /\ stats.bps = StatsNew.bps
        /\ BPS = StatsNew.bps
        /\ F64IsZero(BPS)

\* a token without recipients, and both events handled
C20_Witness ==
    /\ telegram_token /\ chat_ids = <<>>
    /\ Len(handled) = 2
    /\ BLOCKS_INDEXED = 2

====
